---- MODULE Spec2Model ----
(***************************************************************************)
(* The three MongoDB data models of the lab (Model1: referenced, Model2:   *)
(* company embedded in person, Model3: persons embedded in company), their *)
(* data generators and the queries Q1..Q4, as a state machine over the     *)
(* four collections of database "test".                                    *)
(*                                                                         *)
(* Strings that the code inspects (company names, person names, dates of   *)
(* birth) are sequences of one-character strings, so that $regex, $concat, *)
(* strftime and the lexicographic $lt are computed, not assumed.  Strings  *)
(* that no operation looks into (domain, email, url, vatNumber, sex) are   *)
(* opaque TLA+ strings.                                                    *)
(***************************************************************************)
EXTENDS Integers, Sequences, FiniteSets, TLC

VARIABLES
    model,          \* the class of the object the session works with
    m1_persons,     \* collection test.m1_persons, in insertion order
    m1_companies,   \* collection test.m1_companies
    m2_persons,     \* collection test.m2_persons
    m3_companies,   \* collection test.m3_companies
    gen,            \* arguments and fixture values of the last data_generator call
    res,            \* what the last operation returned / printed
    open_clients    \* MongoClient connections opened and not closed

vars == <<model, m1_persons, m1_companies, m2_persons, m3_companies,
          gen, res, open_clients>>

store == <<m1_persons, m1_companies, m2_persons, m3_companies>>

Models == {"Model1", "Model2", "Model3"}

-----------------------------------------------------------------------------
(* Bounds of the model *)

\* data_generator is called with n in 2*500 .. 2*500 + MaxExtra, or with an n below 500
MaxExtra == 1
\* a store filled by hand holds up to MaxStoreCompanies companies
MaxStoreCompanies == 2
\* and up to MaxStorePersons persons per collection or staff list
MaxStorePersons == 2

(* Program constants *)
CompanyRatio == 500
ReferenceYear == 2025
NewAge == 30

-----------------------------------------------------------------------------
(* Characters and strings *)

\* printable ASCII 32..122, in code point order (the quote, the parentheses, the
\* asterisk, the backslash and the backtick, which no fixture value uses, by their code points)
Ascii ==
    <<" ", "!", "U+22", "#", "$", "%", "&", "'", "U+28", "U+29", "U+2A", "+", ",", "-", ".", "/",
      "0", "1", "2", "3", "4", "5", "6", "7", "8", "9",
      ":", ";", "<", "=", ">", "?", "@",
      "A", "B", "C", "D", "E", "F", "G", "H", "I", "J", "K", "L", "M",
      "N", "O", "P", "Q", "R", "S", "T", "U", "V", "W", "X", "Y", "Z",
      "[", "U+5C", "]", "^", "_", "U+60",
      "a", "b", "c", "d", "e", "f", "g", "h", "i", "j", "k", "l", "m",
      "n", "o", "p", "q", "r", "s", "t", "u", "v", "w", "x", "y", "z">>

Chars == {Ascii[k] : k \in 1..Len(Ascii)}

\* code point of a character
Ord == [ch \in Chars |-> 31 + (CHOOSE k \in 1..Len(Ascii) : Ascii[k] = ch)]

Chr(code) == Ascii[code - 31]

\* ASCII case folding, as the regex option "i" does it
Lower == [ch \in Chars |-> IF Ord[ch] >= 65 /\ Ord[ch] <= 90 THEN Chr(Ord[ch] + 32) ELSE ch]

\* a < b, given that a and b agree before position k
RECURSIVE StrLtFrom(_, _, _)
StrLtFrom(a, b, k) ==
    IF k > Len(b) THEN FALSE
    ELSE IF k > Len(a) THEN TRUE
    ELSE IF a[k] = b[k] THEN StrLtFrom(a, b, k + 1)
    ELSE Ord[a[k]] < Ord[b[k]]

\* binary string comparison a < b (MongoDB $lt on two strings)
StrLt(a, b) == StrLtFrom(a, b, 1)

\* does pat occur in s at offset k (0-based), ignoring case
OccursAtI(s, pat, k) ==
    /\ k + Len(pat) <= Len(s)
    /\ \A j \in 1..Len(pat) : Lower[s[k + j]] = Lower[pat[j]]

\* {"$regex": pat, "$options": "i"}: unanchored, case-insensitive search
RegexMatchI(s, pat) == \E k \in 0..(Len(s) - Len(pat)) : OccursAtI(s, pat, k)

\* {"$concat": [a, b]}
Concat(a, b) == a \o b

\* two decimal digits, zero padded (%m, %d)
Digits2(v) == <<Chr(48 + (v \div 10)), Chr(48 + (v % 10))>>

\* four decimal digits (%Y)
Digits4(v) == Digits2(v \div 100) \o Digits2(v % 100)

\* birth_date.strftime("%Y-%m-%d")
Strftime(d) == Digits4(d.year) \o <<"-">> \o Digits2(d.month) \o <<"-">> \o Digits2(d.day)

\* the literals of the queries
CompanyWord == <<"C", "o", "m", "p", "a", "n", "y">>
\* an abbreviation in place of the word
CompanySuffixAbbreviated == <<" ", "C", "o", ".">>

\* " Company", the string query_q4 appends
CompanySuffix == <<" ">> \o CompanyWord
CutoffDate == <<"1", "9", "8", "8", "-", "0", "1", "-", "0", "1">>

-----------------------------------------------------------------------------------------------------------------------------------------------------
(* The fixture generator (Faker).  One run of data_generator draws all its  *)
(* values from one Faker instance; FakerRuns lists what such a run can      *)
(* yield: the company names in order, and the pattern of the birth dates.   *)

\* fake.date_of_birth(minimum_age=25, maximum_age=75): dates on both sides of, and
\* next to, 1988-01-01; 1995 gives an age that is 30 from the start
BirthPool ==
    << [year |-> 1987, month |-> 12, day |-> 31],
       [year |-> 1988, month |-> 1,  day |-> 1],
       [year |-> 1950, month |-> 6,  day |-> 15],
       [year |-> 1995, month |-> 3,  day |-> 9],
       [year |-> 2000, month |-> 11, day |-> 30] >>

\* "mixed" cycles through BirthPool; "blocks" starts with a block of persons all
\* born on 1988-01-01, then cycles
BirthPatterns == {"mixed", "blocks"}

\* fake.company(): all names without the word "Company"; one name that becomes equal
\* to the other once suffixed; the word in front, in capitals; the same name twice
FakerRuns ==
    { [names  |-> << <<"A", "b">>, <<"E", "f">> >>,
       births |-> "mixed"],
      [names  |-> << <<"A", "b">>, <<"A", "b", " ", "C", "o", "m", "p", "a", "n", "y">> >>,
       births |-> "blocks"],
      [names  |-> << <<"C", "O", "M", "P", "A", "N", "Y", " ", "C", "d">>, <<"A", "b">> >>,
       births |-> "mixed"],
      [names  |-> << <<"E", "f">>, <<"E", "f">> >>,
       births |-> "blocks"] }

\* the g-th (0-based) birth date drawn in a run
BirthDate(births, g) ==
    IF births = "blocks" /\ g < CompanyRatio - 1
    THEN BirthPool[2]
    ELSE BirthPool[(g % Len(BirthPool)) + 1]

FirstNames == << <<"A", "l">>, <<"B", "o">>, <<"C", "y">> >>
LastNames == << <<"N", "g">>, <<"O", "x">> >>
Emails == <<"a@x.org", "b@y.com">>
Sexes == <<"M", "F">>
Domains == <<"d0.com", "d1.net", "d2.org">>
CompanyEmails == <<"info@d0.com", "info@d1.net", "info@d2.org">>
Urls == <<"http://d0.com/", "http://d1.net/", "http://d2.org/">>
VatNumbers == <<"IT00000000001", "IT00000000002", "IT00000000003">>

Pick(pool, k) == pool[(k % Len(pool)) + 1]

\* the person dictionary built from the g-th (0-based) draws of a run
NewPerson(births, g) ==
    LET birth_date == BirthDate(births, g) IN
    [ age          |-> ReferenceYear - birth_date.year,
      companyEmail |-> Pick(Emails, g),
      dateOfBirth  |-> Strftime(birth_date),
      firstName    |-> Pick(FirstNames, g),
      lastName     |-> Pick(LastNames, g),
      sex          |-> Pick(Sexes, g) ]

\* n of the calls the session makes: enough for two companies, and too few for one
Sizes == {2 * CompanyRatio + k : k \in 0..MaxExtra} \cup {1, CompanyRatio - 1}

\* NewPerson, tabulated
PersonTable ==
    [births \in BirthPatterns |-> [g \in 0..(2 * CompanyRatio + MaxExtra) |-> NewPerson(births, g)]]

PersonDoc(fake, g) == PersonTable[fake.births][g]

\* the company dictionary built for the c-th (1-based) company of a run
CompanyDoc(fake, c) ==
    [ domain    |-> Pick(Domains, c - 1),
      email     |-> Pick(CompanyEmails, c - 1),
      name      |-> Pick(fake.names, c - 1),
      url       |-> Pick(Urls, c - 1),
      vatNumber |-> Pick(VatNumbers, c - 1) ]

\* the k-th ObjectId the driver creates in a generation run
ObjectId(k) == k

\* the document as stored: insert_one adds the _id
WithId(doc, oid) == [_id |-> oid] @@ doc

-----------------------------------------------------------------------------
(* Results of an operation *)

\* op: the method; out: the documents of a read query; matched, modified: the counts
\* of an update; dropped: the documents a data_generator call found and dropped;
\* error: the exception that ended the call, if any
NoResult ==
    [op |-> "none", out |-> <<>>, matched |-> 0, modified |-> 0, dropped |-> 0, error |-> "none"]
Returned(op, out, matched, modified) ==
    [op |-> op, out |-> out, matched |-> matched, modified |-> modified, dropped |-> 0,
     error |-> "none"]

NoGen == [n |-> -1, fake |-> [names |-> <<>>, births |-> "none"]]

Init ==
    /\ model \in Models
    /\ m1_persons = <<>>
    /\ m1_companies = <<>>
    /\ m2_persons = <<>>
    /\ m3_companies = <<>>
    /\ gen = NoGen
    /\ res = NoResult
    /\ open_clients = 0

-----------------------------------------------------------------------------
(* The document store *)

\* {"$lt": "1988-01-01"} on a dateOfBirth
BornBeforeCutoff(person) == StrLt(person.dateOfBirth, CutoffDate)

\* the filter without "$options": "i": the word is searched for as written
LacksCompanyWordAsWritten(name) ==
    ~\E k \in 0..(Len(name) - Len(CompanyWord)) :
        \A j \in 1..Len(CompanyWord) : name[k + j] = CompanyWord[j]

\* {"$not": {"$regex": "Company", "$options": "i"}} on a name
LacksCompanyWord(name) == ~RegexMatchI(name, CompanyWord)

\* update_many that reports every matched document as modified
UpdateResultCountingMatched(coll, hits, docs) ==
    [ docs     |-> [i \in 1..Len(coll) |-> IF i \in hits THEN docs[i] ELSE coll[i]],
      matched  |-> Cardinality(hits),
      modified |-> Cardinality(hits) ]

\* update_many on coll, where hits are the positions of the documents the filter
\* matches and docs[i] is the update of the i-th: every matched document is replaced
\* by its update; matched_count counts the documents matched, modified_count those
\* among them that the update changed
UpdateResult(coll, hits, docs) ==
    [ docs     |-> [i \in 1..Len(coll) |-> IF i \in hits THEN docs[i] ELSE coll[i]],
      matched  |-> Cardinality(hits),
      modified |-> Cardinality({i \in hits : docs[i] # coll[i]}) ]

\* the concatenation of a sequence of sequences
RECURSIVE Flatten(_)
Flatten(seqs) == IF seqs = <<>> THEN <<>> ELSE Head(seqs) \o Flatten(Tail(seqs))

\* the members of a finite set of integers, ascending
Ascending(S) == [k \in 1..Cardinality(S) |-> CHOOSE i \in S : Cardinality({j \in S : j < i}) = k - 1]

-----------------------------------------------------------------------------
(* Model1 *)

\* at least one company, whatever n
NCompaniesAtLeastOne(n) == IF n < CompanyRatio THEN 1 ELSE n \div CompanyRatio

\* n_companies = int(n // 500)
NCompanies(n) == n \div CompanyRatio

\* n_persons, the companies not subtracted
NPersonsNotReduced(n) == n

\* n_persons = n - n_companies
NPersons(n) == n - NCompanies(n)

\* the position in company_ids instead of the ObjectId stored there
CompanyOfPosition(company_ids, i, n_companies) == i % n_companies

\* company_ids[i % n_companies]
CompanyOf(company_ids, i, n_companies) == company_ids[(i % n_companies) + 1]

\* the companies loop of Model1: insert_one per company, the ids retained
M1CompanyDocs(n, fake) ==
    [c \in 1..NCompanies(n) |-> WithId(CompanyDoc(fake, c), ObjectId(c))]

\* the persons loop of Model1
M1PersonDocs(n, fake, company_ids) ==
    [i \in 1..NPersons(n) |->
        WithId([company |-> CompanyOf(company_ids, i - 1, NCompanies(n))]
                   @@ PersonDoc(fake, i - 1),
               ObjectId(NCompanies(n) + i))]

\* what the two loops of Model1 insert when called with n: the first person
\* raises ZeroDivisionError (i % n_companies) when there is no company
M1Load(n, fake) ==
    LET companies == M1CompanyDocs(n, fake)
        company_ids == [c \in 1..Len(companies) |-> companies[c]._id]
    IN IF NCompanies(n) = 0 /\ NPersons(n) > 0
       THEN [companies |-> companies, persons |-> <<>>, error |-> "ZeroDivisionError"]
       ELSE [companies |-> companies, persons |-> M1PersonDocs(n, fake, company_ids),
             error |-> "none"]

\* M1Load, tabulated
M1LoadTable == [n \in Sizes |-> [fake \in FakerRuns |-> M1Load(n, fake)]]

\* the collection, not dropped
NotDropped(coll) == coll

\* what data_generator finds in a collection it has dropped (and re-created)
Dropped(coll) == <<>>

\* the outcome of a data_generator call
Outcome(error, dropped) ==
    [op |-> "data_generator", out |-> <<>>, matched |-> 0, modified |-> 0,
     dropped |-> dropped, error |-> error]

\* client.close() is the last statement: an exception leaves the client open
ClientsAfter(error) == IF error = "none" THEN open_clients ELSE open_clients + 1

\* the arguments and draws of the last data_generator call that returned
Generated(n, fake, error) == IF error = "none" THEN [n |-> n, fake |-> fake] ELSE NoGen

M1DataGenerator(n, fake) ==
    /\ model = "Model1"
    /\ LET load == M1LoadTable[n][fake] IN
        /\ m1_persons' = Dropped(m1_persons) \o load.persons
        /\ m1_companies' = Dropped(m1_companies) \o load.companies
        /\ res' = Outcome(load.error, Len(m1_persons) + Len(m1_companies))
        /\ open_clients' = ClientsAfter(load.error)
        /\ gen' = Generated(n, fake, load.error)
    /\ UNCHANGED <<model, m2_persons, m3_companies>>

\* {"$lookup": {from: m1_companies, localField: company, foreignField: _id}}
M1CompanyInfo(person) == SelectSeq(m1_companies, LAMBDA c : c._id = person.company)

\* $lookup, $unwind "$company_info", $project.  $unwind yields one document per
\* element of company_info, none for an empty one; _id is unique in a collection,
\* so company_info has at most one element
M1Q1Pipeline ==
    LET joined == SelectSeq(m1_persons, LAMBDA p : M1CompanyInfo(p) # <<>>) IN
    [i \in 1..Len(joined) |->
        [ firstName   |-> joined[i].firstName,
          lastName    |-> joined[i].lastName,
          companyName |-> M1CompanyInfo(joined[i])[1].name ]]

M1QueryQ1 ==
    /\ model = "Model1"
    /\ res' = Returned("query_q1", M1Q1Pipeline, 0, 0)
    /\ UNCHANGED <<model, store, gen, open_clients>>

\* the reverse $lookup: the m1_persons documents whose company is this _id
M1Employees(company) == SelectSeq(m1_persons, LAMBDA p : p.company = company._id)

\* the first version of query_q2 (kept in the source as a comment): $group the
\* persons by company, $lookup the company, $unwind, $project
M1Q2GroupPipeline ==
    LET ids == {m1_persons[i].company : i \in 1..Len(m1_persons)}
        known == {id \in ids : \E c \in 1..Len(m1_companies) : m1_companies[c]._id = id}
        order == Ascending(known)
    IN [k \in 1..Len(order) |->
          [ companyName   |-> (CHOOSE d \in {m1_companies[c] : c \in 1..Len(m1_companies)} :
                                  d._id = order[k]).name,
            employeeCount |-> Cardinality({i \in 1..Len(m1_persons) :
                                              m1_persons[i].company = order[k]}) ]]

\* $lookup from m1_persons, $project companyName and the $size of employees
M1Q2Pipeline ==
    [c \in 1..Len(m1_companies) |->
        [ companyName   |-> m1_companies[c].name,
          employeeCount |-> Len(M1Employees(m1_companies[c])) ]]

M1QueryQ2 ==
    /\ model = "Model1"
    /\ res' = Returned("query_q2", M1Q2Pipeline, 0, 0)
    /\ UNCHANGED <<model, store, gen, open_clients>>

\* {"$set": {"age": 30}}
SetAge(person) == [person EXCEPT !.age = NewAge]

M1QueryQ3 ==
    /\ model = "Model1"
    /\ LET hits == {i \in 1..Len(m1_persons) : BornBeforeCutoff(m1_persons[i])}
           docs == [i \in 1..Len(m1_persons) |-> SetAge(m1_persons[i])]
           results == UpdateResult(m1_persons, hits, docs)
       IN /\ m1_persons' = results.docs
          /\ res' = Returned("query_q3", <<>>, results.matched, results.modified)
    /\ UNCHANGED <<model, m1_companies, m2_persons, m3_companies, gen, open_clients>>

\* the filter of query_q4 of Model1 and Model3
NameLacksCompanyWord(company) == LacksCompanyWord(company.name)

\* [{"$set": {"name": {"$concat": ["$name", " Company"]}}}]
AppendCompany(company) == [company EXCEPT !.name = Concat(@, CompanySuffix)]

M1QueryQ4 ==
    /\ model = "Model1"
    /\ LET hits == {i \in 1..Len(m1_companies) : NameLacksCompanyWord(m1_companies[i])}
           docs == [i \in 1..Len(m1_companies) |-> AppendCompany(m1_companies[i])]
           results == UpdateResult(m1_companies, hits, docs)
       IN /\ m1_companies' = results.docs
          /\ res' = Returned("query_q4", <<>>, results.matched, results.modified)
    /\ UNCHANGED <<model, m1_persons, m2_persons, m3_companies, gen, open_clients>>

-----------------------------------------------------------------------------
(* Model2 *)

\* every person embeds the first of the pre-generated companies
M2PersonDocsFirstCompany(n, fake) ==
    [i \in 1..NPersons(n) |->
        WithId([company |-> CompanyDoc(fake, 1)] @@ PersonDoc(fake, i - 1), ObjectId(i))]

\* the persons loop of Model2: each person embeds one of the pre-generated companies
M2PersonDocs(n, fake) ==
    [i \in 1..NPersons(n) |->
        WithId([company |-> CompanyDoc(fake, ((i - 1) % NCompanies(n)) + 1)]
                   @@ PersonDoc(fake, i - 1),
               ObjectId(i))]

\* what the loop of Model2 inserts when called with n
M2Load(n, fake) ==
    IF NCompanies(n) = 0 /\ NPersons(n) > 0
    THEN [persons |-> <<>>, error |-> "ZeroDivisionError"]
    ELSE [persons |-> M2PersonDocs(n, fake), error |-> "none"]

\* M2Load, tabulated
M2LoadTable == [n \in Sizes |-> [fake \in FakerRuns |-> M2Load(n, fake)]]

M2DataGenerator(n, fake) ==
    /\ model = "Model2"
    /\ LET load == M2LoadTable[n][fake] IN
        /\ m2_persons' = Dropped(m2_persons) \o load.persons
        /\ res' = Outcome(load.error, Len(m2_persons))
        /\ open_clients' = ClientsAfter(load.error)
        /\ gen' = Generated(n, fake, load.error)
    /\ UNCHANGED <<model, m1_persons, m1_companies, m3_companies>>

\* find({}, {"firstName": 1, "lastName": 1, "company.name": 1}): the _id stays,
\* and of the embedded company only its name
M2Q1Find ==
    [i \in 1..Len(m2_persons) |->
        [ _id       |-> m2_persons[i]._id,
          firstName |-> m2_persons[i].firstName,
          lastName  |-> m2_persons[i].lastName,
          company   |-> [name |-> m2_persons[i].company.name] ]]

M2QueryQ1 ==
    /\ model = "Model2"
    /\ res' = Returned("query_q1", M2Q1Find, 0, 0)
    /\ UNCHANGED <<model, store, gen, open_clients>>

\* the positions of the documents of one $group, by "$company.name"
M2Group(name) == {i \in 1..Len(m2_persons) : m2_persons[i].company.name = name}

\* the $group with {"$sum": "1"}: the sum of a string is 0
M2Q2PipelineSumOfString ==
    LET names == {m2_persons[i].company.name : i \in 1..Len(m2_persons)}
        first == Ascending({CHOOSE i \in M2Group(nm) : \A j \in M2Group(nm) : i <= j : nm \in names})
    IN [k \in 1..Len(first) |->
          [ company_name  |-> m2_persons[first[k]].company.name,
            num_employees |-> 0 ]]

\* $group by company.name with $sum 1, $project: one document per distinct name
\* (here in the order in which the names first occur)
M2Q2Pipeline ==
    LET names == {m2_persons[i].company.name : i \in 1..Len(m2_persons)}
        first == Ascending({CHOOSE i \in M2Group(nm) : \A j \in M2Group(nm) : i <= j : nm \in names})
    IN [k \in 1..Len(first) |->
          [ company_name  |-> m2_persons[first[k]].company.name,
            num_employees |-> Cardinality(M2Group(m2_persons[first[k]].company.name)) ]]

M2QueryQ2 ==
    /\ model = "Model2"
    /\ res' = Returned("query_q2", M2Q2Pipeline, 0, 0)
    /\ UNCHANGED <<model, store, gen, open_clients>>

M2QueryQ3 ==
    /\ model = "Model2"
    /\ LET hits == {i \in 1..Len(m2_persons) : BornBeforeCutoff(m2_persons[i])}
           docs == [i \in 1..Len(m2_persons) |-> SetAge(m2_persons[i])]
           results == UpdateResult(m2_persons, hits, docs)
       IN /\ m2_persons' = results.docs
          /\ res' = Returned("query_q3", <<>>, results.matched, results.modified)
    /\ UNCHANGED <<model, m1_persons, m1_companies, m3_companies, gen, open_clients>>

\* the filter of query_q4 of Model2, on the path company.name
EmbeddedNameLacksCompanyWord(person) == LacksCompanyWord(person.company.name)

\* the name rewritten once per company, in the first document that embeds it
AppendCompanyOncePerCompany(person) ==
    IF person._id <= gen.n \div CompanyRatio
    THEN [person EXCEPT !.company.name = Concat(@, CompanySuffix)]
    ELSE person

\* [{"$set": {"company.name": {"$concat": ["$company.name", " Company"]}}}]
AppendCompanyEmbedded(person) == [person EXCEPT !.company.name = Concat(@, CompanySuffix)]

M2QueryQ4 ==
    /\ model = "Model2"
    /\ LET hits == {i \in 1..Len(m2_persons) : EmbeddedNameLacksCompanyWord(m2_persons[i])}
           docs == [i \in 1..Len(m2_persons) |-> AppendCompanyEmbedded(m2_persons[i])]
           results == UpdateResult(m2_persons, hits, docs)
       IN /\ m2_persons' = results.docs
          /\ res' = Returned("query_q4", <<>>, results.matched, results.modified)
    /\ UNCHANGED <<model, m1_persons, m1_companies, m3_companies, gen, open_clients>>

-----------------------------------------------------------------------------
(* Model3 *)

\* persons_per_company = int(n_persons // n_companies)
PersonsPerCompany(n) == NPersons(n) \div NCompanies(n)

\* the staff list of the c-th (1-based) company
Staff(n, fake, c) ==
    [j \in 1..PersonsPerCompany(n) |-> PersonDoc(fake, (c - 1) * PersonsPerCompany(n) + j - 1)]

\* the companies loop of Model3
M3CompanyDocs(n, fake) ==
    [c \in 1..NCompanies(n) |->
        WithId([persons |-> Staff(n, fake, c)] @@ CompanyDoc(fake, c), ObjectId(c))]

\* what the loop of Model3 inserts when called with n: persons_per_company raises
\* ZeroDivisionError when there is no company
M3Load(n, fake) ==
    IF NCompanies(n) = 0
    THEN [companies |-> <<>>, error |-> "ZeroDivisionError"]
    ELSE [companies |-> M3CompanyDocs(n, fake), error |-> "none"]

\* M3Load, tabulated
M3LoadTable == [n \in Sizes |-> [fake \in FakerRuns |-> M3Load(n, fake)]]

M3DataGenerator(n, fake) ==
    /\ model = "Model3"
    /\ LET load == M3LoadTable[n][fake] IN
        /\ m3_companies' = Dropped(m3_companies) \o load.companies
        /\ res' = Outcome(load.error, Len(m3_companies))
        /\ open_clients' = ClientsAfter(load.error)
        /\ gen' = Generated(n, fake, load.error)
    /\ UNCHANGED <<model, m1_persons, m1_companies, m2_persons>>

\* fullName without the blank between the names
M3Q1RowNoBlank(company, person) ==
    [ fullName    |-> Concat(person.firstName, person.lastName),
      companyName |-> company.name ]

\* one output document of $unwind "$persons" and $project, for one staff member
M3Q1Row(company, person) ==
    [ fullName    |-> Concat(Concat(person.firstName, <<" ">>), person.lastName),
      companyName |-> company.name ]

\* the $project without the $unwind: one document per company
M3Q1PipelineNoUnwind ==
    [c \in 1..Len(m3_companies) |->
        [ fullName    |-> [j \in 1..Len(m3_companies[c].persons) |->
                             Concat(Concat(m3_companies[c].persons[j].firstName, <<" ">>),
                                    m3_companies[c].persons[j].lastName)],
          companyName |-> m3_companies[c].name ]]

\* $unwind "$persons", $project fullName and companyName
M3Q1Pipeline ==
    Flatten([c \in 1..Len(m3_companies) |->
        [j \in 1..Len(m3_companies[c].persons) |->
            M3Q1Row(m3_companies[c], m3_companies[c].persons[j])]])

M3QueryQ1 ==
    /\ model = "Model3"
    /\ res' = Returned("query_q1", M3Q1Pipeline, 0, 0)
    /\ UNCHANGED <<model, store, gen, open_clients>>

\* $project name and the $size of persons
M3Q2Pipeline ==
    [c \in 1..Len(m3_companies) |->
        [ name          |-> m3_companies[c].name,
          num_employees |-> Len(m3_companies[c].persons) ]]

M3QueryQ2 ==
    /\ model = "Model3"
    /\ res' = Returned("query_q2", M3Q2Pipeline, 0, 0)
    /\ UNCHANGED <<model, store, gen, open_clients>>

\* {"persons.dateOfBirth": {"$lt": "1988-01-01"}}: some element of the array matches
SomeStaffBornBeforeCutoff(company) ==
    \E j \in 1..Len(company.persons) : BornBeforeCutoff(company.persons[j])

\* {"$set": {"persons.$[].age": 30}}: no array filter, every element is set
SetAgeOfAllStaff(company) ==
    [company EXCEPT !.persons = [j \in 1..Len(@) |-> SetAge(@[j])]]

\* {"$set": {"persons.$[elem].age": 30}} with
\* array_filters=[{"elem.dateOfBirth": {"$lt": "1988-01-01"}}]
SetAgeOfFilteredStaff(company) ==
    [company EXCEPT !.persons =
        [j \in 1..Len(@) |-> IF BornBeforeCutoff(@[j]) THEN SetAge(@[j]) ELSE @[j]]]

M3QueryQ3 ==
    /\ model = "Model3"
    /\ LET hits == {i \in 1..Len(m3_companies) : SomeStaffBornBeforeCutoff(m3_companies[i])}
           docs == [i \in 1..Len(m3_companies) |-> SetAgeOfFilteredStaff(m3_companies[i])]
           results == UpdateResult(m3_companies, hits, docs)
       IN /\ m3_companies' = results.docs
          /\ res' = Returned("query_q3", <<>>, results.matched, results.modified)
    /\ UNCHANGED <<model, m1_persons, m1_companies, m2_persons, gen, open_clients>>

M3QueryQ4 ==
    /\ model = "Model3"
    /\ LET hits == {i \in 1..Len(m3_companies) : NameLacksCompanyWord(m3_companies[i])}
           docs == [i \in 1..Len(m3_companies) |-> AppendCompany(m3_companies[i])]
           results == UpdateResult(m3_companies, hits, docs)
       IN /\ m3_companies' = results.docs
          /\ res' = Returned("query_q4", <<>>, results.matched, results.modified)
    /\ UNCHANGED <<model, m1_persons, m1_companies, m2_persons, gen, open_clients>>

-----------------------------------------------------------------------------

\* no caller catches an exception: one that leaves an operation ends the script
Running == res.error = "none"

DataGenerator ==
    /\ Running
    /\ \E n \in Sizes : \E fake \in FakerRuns :
        \/ M1DataGenerator(n, fake)
        \/ M2DataGenerator(n, fake)
        \/ M3DataGenerator(n, fake)

QueryQ1 == Running /\ (M1QueryQ1 \/ M2QueryQ1 \/ M3QueryQ1)
QueryQ2 == Running /\ (M1QueryQ2 \/ M2QueryQ2 \/ M3QueryQ2)
QueryQ3 == Running /\ (M1QueryQ3 \/ M2QueryQ3 \/ M3QueryQ3)
QueryQ4 == Running /\ (M1QueryQ4 \/ M2QueryQ4 \/ M3QueryQ4)

Next ==
    \/ DataGenerator
    \/ QueryQ1
    \/ QueryQ2
    \/ QueryQ3
    \/ QueryQ4

Spec == Init /\ [][Next]_vars

-----------------------------------------------------------------------------
(* The queries on a store that was not filled by data_generator: database    *)
(* "test" is shared, and the queries take the collections as they find them. *)
(* Such a store may hold companies without persons and unevenly staffed      *)
(* companies; its documents have the fields of the generated ones.           *)

\* m1_companies with k companies
HandMadeCompanies(fake, k) == [c \in 1..k |-> WithId(CompanyDoc(fake, c), ObjectId(c))]

\* m1_persons whose i-th person works for the company with _id refs[i]
HandMadeM1Persons(fake, k, refs) ==
    [i \in 1..Len(refs) |->
        WithId([company |-> ObjectId(refs[i])] @@ PersonDoc(fake, i - 1), ObjectId(k + i))]

\* m2_persons whose i-th person embeds the refs[i]-th company
HandMadeM2Persons(fake, refs) ==
    [i \in 1..Len(refs) |->
        WithId([company |-> CompanyDoc(fake, refs[i])] @@ PersonDoc(fake, i - 1), ObjectId(i))]

\* m3_companies whose c-th company has sizes[c] staff members
HandMadeM3Companies(fake, sizes) ==
    [c \in 1..Len(sizes) |->
        WithId([persons |-> [j \in 1..sizes[c] |->
                                PersonDoc(fake, (c - 1) * MaxStorePersons + j - 1)]]
                   @@ CompanyDoc(fake, c),
               ObjectId(c))]

\* the sequences over S of length at most len
SeqsUpTo(S, len) == UNION {[1..l -> S] : l \in 0..len}

InitStore ==
    /\ model \in Models
    /\ gen = NoGen
    /\ res = NoResult
    /\ open_clients = 0
    /\ \E fake \in FakerRuns :
        \/ /\ model = "Model1"
           /\ \E k \in 0..MaxStoreCompanies : \E refs \in SeqsUpTo(1..k, MaxStorePersons) :
                /\ m1_companies = HandMadeCompanies(fake, k)
                /\ m1_persons = HandMadeM1Persons(fake, k, refs)
           /\ m2_persons = <<>>
           /\ m3_companies = <<>>
        \/ /\ model = "Model2"
           /\ \E refs \in SeqsUpTo(1..MaxStoreCompanies, MaxStorePersons) :
                m2_persons = HandMadeM2Persons(fake, refs)
           /\ m1_persons = <<>>
           /\ m1_companies = <<>>
           /\ m3_companies = <<>>
        \/ /\ model = "Model3"
           /\ \E sizes \in SeqsUpTo(0..MaxStorePersons, MaxStoreCompanies) :
                m3_companies = HandMadeM3Companies(fake, sizes)
           /\ m1_persons = <<>>
           /\ m1_companies = <<>>
           /\ m2_persons = <<>>

NextStore ==
    \/ QueryQ1
    \/ QueryQ2
    \/ QueryQ3
    \/ QueryQ4

SpecStore == InitStore /\ [][NextStore]_vars

-----------------------------------------------------------------------------
(* Properties *)

\* the sum of a sequence of numbers
RECURSIVE Sum(_)
Sum(seq) == IF seq = <<>> THEN 0 ELSE Head(seq) + Sum(Tail(seq))

\* the staff list lengths of m3_companies
StaffSizes == [c \in 1..Len(m3_companies) |-> Len(m3_companies[c].persons)]

\* the Person entities the session's model stores
StoredPersons ==
    CASE model = "Model1" -> Len(m1_persons)
      [] model = "Model2" -> Len(m2_persons)
      [] model = "Model3" -> Sum(StaffSizes)

\* the collections of the session's model have the sizes data_generator(n) gives them
SizedFor(n) ==
    LET companies == n \div CompanyRatio
        persons == n - companies
    IN CASE model = "Model1" ->
              Len(m1_companies) = companies /\ Len(m1_persons) = persons
         [] model = "Model2" ->
              Len(m2_persons) = persons
         [] model = "Model3" ->
              /\ Len(m3_companies) = companies
              /\ \A c \in 1..Len(m3_companies) :
                    Len(m3_companies[c].persons) = persons \div companies
              /\ Sum(StaffSizes) = companies * (persons \div companies)

JustGenerated == res.op = "data_generator" /\ res.error = "none"

C2_FullReplace ==
    IF gen = NoGen
    THEN store = <<<<>>, <<>>, <<>>, <<>>>>
    ELSE SizedFor(gen.n)

\* data_generator has just replaced a larger data set by a smaller one
C2_Witness ==
    /\ JustGenerated
    /\ res.dropped > gen.n
    /\ SizedFor(gen.n)

\* C3: in Model1 every m1_persons document's company is the _id of a document in
\* m1_companies, after generation and after any queries.
C3_ReferentialIntegrity ==
    \A i \in 1..Len(m1_persons) :
        \E c \in 1..Len(m1_companies) : m1_companies[c]._id = m1_persons[i].company

\* the Model1 data, generated and then rewritten by query_q4
C3_Witness ==
    /\ model = "Model1"
    /\ Len(m1_persons) > 0
    /\ res.op = "query_q4"
    /\ res.modified > 0

\* C4: the number of records query_q1 returns is the number of Person entities the
\* model stores.
C4_Q1CountsEveryPerson ==
    res.op = "query_q1" => Len(res.out) = StoredPersons

\* query_q1 of Model1 has returned a record for every one of the generated persons
C4_Witness ==
    /\ model = "Model1"
    /\ res.op = "query_q1"
    /\ gen # NoGen
    /\ Len(res.out) = gen.n - (gen.n \div CompanyRatio)

\* the fields of a document
Fields(doc) == DOMAIN doc

\* C5 as stated: every query_q1 record, of every model, has exactly the fields
\* firstName, lastName and companyName, one record per Person entity.
C5_Original ==
    res.op = "query_q1" =>
        /\ Len(res.out) = StoredPersons
        /\ \A k \in 1..Len(res.out) :
              Fields(res.out[k]) = {"firstName", "lastName", "companyName"}

\* the name of the m1_companies document with this _id
M1NameOf(id) ==
    LET c == CHOOSE c \in 1..Len(m1_companies) : m1_companies[c]._id = id
    IN m1_companies[c].name

\* the number of staff members of the companies before the c-th
StaffBefore(c) == Sum(SubSeq(StaffSizes, 1, c - 1))

\* C5, amended: query_q1 returns one record per Person entity; in Model1 it has
\* exactly firstName, lastName and companyName; in Model2 it has _id, firstName,
\* lastName and a company sub-document holding only the name; in Model3 it has
\* exactly fullName (first name, a blank, last name) and companyName.
C5_Q1RecordShape ==
    res.op = "query_q1" =>
        CASE model = "Model1" ->
              /\ Len(res.out) = Len(m1_persons)
              /\ \A i \in 1..Len(m1_persons) :
                    /\ Fields(res.out[i]) = {"firstName", "lastName", "companyName"}
                    /\ res.out[i].firstName = m1_persons[i].firstName
                    /\ res.out[i].lastName = m1_persons[i].lastName
                    /\ res.out[i].companyName = M1NameOf(m1_persons[i].company)
          [] model = "Model2" ->
              /\ Len(res.out) = Len(m2_persons)
              /\ \A i \in 1..Len(m2_persons) :
                    /\ Fields(res.out[i]) = {"_id", "firstName", "lastName", "company"}
                    /\ Fields(res.out[i].company) = {"name"}
                    /\ res.out[i]._id = m2_persons[i]._id
                    /\ res.out[i].firstName = m2_persons[i].firstName
                    /\ res.out[i].lastName = m2_persons[i].lastName
                    /\ res.out[i].company.name = m2_persons[i].company.name
          [] model = "Model3" ->
              /\ Len(res.out) = Sum(StaffSizes)
              /\ \A c \in 1..Len(m3_companies) :
                    \A j \in 1..Len(m3_companies[c].persons) :
                        LET row == res.out[StaffBefore(c) + j]
                            person == m3_companies[c].persons[j]
                        IN /\ Fields(row) = {"fullName", "companyName"}
                           /\ row.fullName = person.firstName \o <<" ">> \o person.lastName
                           /\ row.companyName = m3_companies[c].name

\* query_q1 of Model3 has returned the full names of the generated staff
C5_Witness ==
    /\ model = "Model3"
    /\ res.op = "query_q1"
    /\ Len(res.out) > 0
    /\ Fields(res.out[1]) = {"fullName", "companyName"}

\* C6: query_q2 of Model1 and of Model3 returns one record per stored company, with
\* the company's name and the exact number of its persons; a company without
\* persons is returned with the count 0.
C6_Q2EveryCompany ==
    res.op = "query_q2" =>
        CASE model = "Model1" ->
              /\ Len(res.out) = Len(m1_companies)
              /\ \A c \in 1..Len(m1_companies) :
                    /\ res.out[c].companyName = m1_companies[c].name
                    /\ res.out[c].employeeCount =
                          Cardinality({i \in 1..Len(m1_persons) :
                                          m1_persons[i].company = m1_companies[c]._id})
          [] model = "Model3" ->
              /\ Len(res.out) = Len(m3_companies)
              /\ \A c \in 1..Len(m3_companies) :
                    /\ res.out[c].name = m3_companies[c].name
                    /\ res.out[c].num_employees = Len(m3_companies[c].persons)
          [] OTHER -> TRUE

\* query_q2 of Model1 has returned a company with employees and one without
C6_Witness ==
    /\ model = "Model1"
    /\ res.op = "query_q2"
    /\ \E c, d \in 1..Len(res.out) :
          /\ res.out[c].employeeCount = 0
          /\ res.out[d].employeeCount > 0

\* the number of companies of the last generation
GeneratedCompanies == gen.n \div CompanyRatio

\* the name the last generation gave its c-th company
GeneratedName(c) == Pick(gen.fake.names, c - 1)

\* the m2_persons documents generated from the c-th company: persons.insert_one is
\* called in the order of i, with companies[i % n_companies]
M2DocsOf(c) == {i \in 1..Len(m2_persons) : (i - 1) % GeneratedCompanies = c - 1}

DistinctGeneratedNames ==
    \A c, d \in 1..GeneratedCompanies : c # d => GeneratedName(c) # GeneratedName(d)

\* query_q2 of Model2 has one record per generated company, with its stored name and
\* the number of documents that embed it
M2Q2OnePerCompany ==
    /\ Len(res.out) = GeneratedCompanies
    /\ \A c \in 1..GeneratedCompanies :
          \E k \in 1..Len(res.out) :
              /\ res.out[k].company_name = m2_persons[c].company.name
              /\ res.out[k].num_employees = Cardinality(M2DocsOf(c))

\* C7 as stated: with pairwise distinct generated names, query_q2 of Model2 returns
\* one record per generated company with the exact count, also after query_q4.
C7_Original ==
    (model = "Model2" /\ res.op = "query_q2" /\ gen # NoGen /\ DistinctGeneratedNames)
        => M2Q2OnePerCompany

\* a name as query_q4 leaves it
Suffixed(name) == IF RegexMatchI(name, CompanyWord) THEN name ELSE name \o CompanySuffix

DistinctSuffixedNames ==
    \A c, d \in 1..GeneratedCompanies :
        c # d => Suffixed(GeneratedName(c)) # Suffixed(GeneratedName(d))

\* C7, amended: with generated names that are pairwise distinct and stay so when
\* " Company" is appended to those lacking the word, query_q2 of Model2 returns one
\* record per generated company with the exact count, also after query_q4.
C7_Q2UnderDistinctNames ==
    (model = "Model2" /\ res.op = "query_q2" /\ gen # NoGen
        /\ DistinctGeneratedNames /\ DistinctSuffixedNames)
        => M2Q2OnePerCompany

\* query_q2 of Model2 has run after query_q4 rewrote the distinct generated names
C7_Witness ==
    /\ model = "Model2"
    /\ res.op = "query_q2"
    /\ gen # NoGen
    /\ DistinctGeneratedNames /\ DistinctSuffixedNames
    /\ m2_persons[1].company.name # GeneratedName(1)
    /\ Len(res.out) = 2

\* the positions of the staff members of a company born before the cutoff
QualifyingStaff(company) ==
    {j \in 1..Len(company.persons) : StrLt(company.persons[j].dateOfBirth, CutoffDate)}

\* the Person entities of the session's model born before the cutoff
QualifyingPersons ==
    CASE model = "Model1" ->
          Cardinality({i \in 1..Len(m1_persons) : StrLt(m1_persons[i].dateOfBirth, CutoffDate)})
      [] model = "Model2" ->
          Cardinality({i \in 1..Len(m2_persons) : StrLt(m2_persons[i].dateOfBirth, CutoffDate)})
      [] model = "Model3" ->
          Sum([c \in 1..Len(m3_companies) |-> Cardinality(QualifyingStaff(m3_companies[c]))])

\* C8 as stated: every query_q3 run reports as matched the number of persons born
\* before 1988-01-01, and as modified the same number (so a second run reports the
\* same two counts as the first).
C8_Original ==
    res.op = "query_q3" =>
        /\ res.matched = QualifyingPersons
        /\ res.modified = res.matched

\* the documents query_q3 matches: persons born before the cutoff in Model1 and
\* Model2, companies with such a staff member in Model3
Q3Matching ==
    CASE model = "Model1" ->
          {i \in 1..Len(m1_persons) : StrLt(m1_persons[i].dateOfBirth, CutoffDate)}
      [] model = "Model2" ->
          {i \in 1..Len(m2_persons) : StrLt(m2_persons[i].dateOfBirth, CutoffDate)}
      [] model = "Model3" ->
          {c \in 1..Len(m3_companies) : QualifyingStaff(m3_companies[c]) # {}}

\* those among them in which a person born before the cutoff has another age than 30
Q3Changing ==
    CASE model = "Model1" -> {i \in Q3Matching : m1_persons[i].age # NewAge}
      [] model = "Model2" -> {i \in Q3Matching : m2_persons[i].age # NewAge}
      [] model = "Model3" ->
          {c \in Q3Matching :
              \E j \in QualifyingStaff(m3_companies[c]) : m3_companies[c].persons[j].age # NewAge}

\* C8, amended: query_q3 reports as matched the persons born before 1988-01-01 in
\* Model1 and Model2, and the company documents with such a staff member in Model3;
\* as modified the matched documents it changed: all of them on the run that follows
\* a generation, none on a run that follows a query_q3 run.
C8_Q3Counts ==
    [][res'.op = "query_q3" =>
          /\ res'.matched = Cardinality(Q3Matching)
          /\ res'.modified = Cardinality(Q3Changing)
          /\ JustGenerated => res'.modified = res'.matched
          /\ res.op = "query_q3" => (res'.matched = res.matched /\ res'.modified = 0)
      ]_vars

\* query_q3 of Model3 has run again: it matched the one company that has staff born
\* before the cutoff, and modified nothing
C8_Witness ==
    /\ model = "Model3"
    /\ res.op = "query_q3"
    /\ Len(m3_companies) = 2
    /\ res.matched = 1
    /\ res.modified = 0
    /\ QualifyingPersons > 1

\* a person after query_q3
AfterQ3(person) ==
    IF StrLt(person.dateOfBirth, CutoffDate) THEN [person EXCEPT !.age = NewAge] ELSE person

\* C9: query_q3 sets the age of every person born before 1988-01-01 to 30 and changes
\* nothing else: no other person (in Model3, no other staff member of the same
\* company), no other field, no company; a query_q3 run that follows one leaves the
\* store as it is.
C9_Q3Frame ==
    [][res'.op = "query_q3" =>
          /\ m1_persons' = [i \in 1..Len(m1_persons) |-> AfterQ3(m1_persons[i])]
          /\ m1_companies' = m1_companies
          /\ m2_persons' = [i \in 1..Len(m2_persons) |-> AfterQ3(m2_persons[i])]
          /\ m3_companies' =
                [c \in 1..Len(m3_companies) |->
                    [m3_companies[c] EXCEPT !.persons = [j \in 1..Len(@) |-> AfterQ3(@[j])]]]
          /\ res.op = "query_q3" => store' = store
      ]_vars

\* query_q3 of Model3 has run on a company that has a staff member born before the
\* cutoff, now aged 30, next to one born later, of another age
C9_Witness ==
    /\ model = "Model3"
    /\ res.op = "query_q3"
    /\ \E c \in 1..Len(m3_companies) :
          \E j, k \in 1..Len(m3_companies[c].persons) :
              /\ StrLt(m3_companies[c].persons[j].dateOfBirth, CutoffDate)
              /\ m3_companies[c].persons[j].age = NewAge
              /\ ~StrLt(m3_companies[c].persons[k].dateOfBirth, CutoffDate)
              /\ m3_companies[c].persons[k].age # NewAge

\* the offsets at which the word occurs in a name, in any letter case
WordOffsets(name) == {k \in 0..(Len(name) - Len(CompanyWord)) : OccursAtI(name, CompanyWord, k)}

\* the name contains the word once, at its end
OnceAsSuffix(name) == WordOffsets(name) = {Len(name) - Len(CompanyWord)}

\* the company names the session's model stores
StoredCompanyNames ==
    CASE model = "Model1" -> [c \in 1..Len(m1_companies) |-> m1_companies[c].name]
      [] model = "Model2" -> [i \in 1..Len(m2_persons) |-> m2_persons[i].company.name]
      [] model = "Model3" -> [c \in 1..Len(m3_companies) |-> m3_companies[c].name]

\* some generated names contain the word, in some letter case, and some do not
MixedNames ==
    /\ gen # NoGen
    /\ \E c \in 1..GeneratedCompanies : WordOffsets(GeneratedName(c)) # {}
    /\ \E c \in 1..GeneratedCompanies : WordOffsets(GeneratedName(c)) = {}

\* C10 as stated: on such a data set, after a run of query_q4 every stored company
\* name contains the word exactly once, as a suffix.
C10_Original ==
    (res.op = "query_q4" /\ MixedNames) =>
        \A k \in 1..Len(StoredCompanyNames) : OnceAsSuffix(StoredCompanyNames[k])

\* C10, amended: a run of query_q4 turns every name that lacked the word (in any
\* letter case) into the old name followed by " Company", which contains the word
\* exactly once, as a suffix, and leaves every name that contained it as it was,
\* wherever and however often it contained it; afterwards every name contains it.
C10_Q4Names ==
    [][res'.op = "query_q4" =>
          /\ Len(StoredCompanyNames') = Len(StoredCompanyNames)
          /\ \A k \in 1..Len(StoredCompanyNames) :
                /\ IF WordOffsets(StoredCompanyNames[k]) = {}
                   THEN /\ StoredCompanyNames'[k] = StoredCompanyNames[k] \o CompanySuffix
                        /\ OnceAsSuffix(StoredCompanyNames'[k])
                   ELSE StoredCompanyNames'[k] = StoredCompanyNames[k]
                /\ WordOffsets(StoredCompanyNames'[k]) # {}
      ]_vars

\* query_q4 of Model1 has rewritten one name and left alone one that has the word in
\* front
C10_Witness ==
    /\ model = "Model1"
    /\ res.op = "query_q4"
    /\ res.modified = 1
    /\ MixedNames
    /\ \E c, d \in 1..Len(m1_companies) :
          /\ OnceAsSuffix(m1_companies[c].name)
          /\ WordOffsets(m1_companies[d].name) # {}
          /\ ~OnceAsSuffix(m1_companies[d].name)

\* C11: a query_q4 run that immediately follows a query_q4 run matches no document,
\* modifies none and leaves every stored company name (and the whole store) as it
\* is: the names the first run rewrote contain the word.
C11_Q4Idempotent ==
    [][(res.op = "query_q4" /\ res'.op = "query_q4") =>
          /\ res'.matched = 0
          /\ res'.modified = 0
          /\ StoredCompanyNames' = StoredCompanyNames
          /\ store' = store
      ]_vars

\* query_q4 of Model2 has run on names an earlier run had rewritten, and matched none
C11_Witness ==
    /\ model = "Model2"
    /\ res.op = "query_q4"
    /\ gen # NoGen
    /\ m2_persons[1].company.name = GeneratedName(1) \o CompanySuffix
    /\ res.matched = 0
    /\ res.modified = 0

\* C12 as stated: every operation closes the connection it opened before control
\* returns to its caller, also when an error ends the operation: whenever an
\* operation has returned or raised, no connection is open.
C12_Original == open_clients = 0

\* the number of m1_persons documents that refer to each m1_companies document
M1Staffing ==
    [c \in 1..Len(m1_companies) |->
        Cardinality({i \in 1..Len(m1_persons) : m1_persons[i].company = m1_companies[c]._id})]

\* the number of m2_persons documents that embed each generated company, told by its
\* vatNumber
M2Staffing ==
    [c \in 1..GeneratedCompanies |->
        Cardinality({i \in 1..Len(m2_persons) :
                        m2_persons[i].company.vatNumber = CompanyDoc(gen.fake, c).vatNumber})]

\* no two entries differ by more than 1, and none is 0
Balanced(staffing) ==
    /\ \A c, d \in 1..Len(staffing) : staffing[c] - staffing[d] <= 1
    /\ \A c \in 1..Len(staffing) : staffing[c] >= 1

TooSmall == {n \in Sizes : 1 <= n /\ n < CompanyRatio}

\* C14: in every model, data_generator(n) with 1 <= n < 500 raises ZeroDivisionError
\* (no validation error), after it has dropped what the model's collections held and
\* before it has inserted a document: the collections are left empty, whatever they
\* held before, and the call does not return.
C14_TooSmallAborts ==
    [][\A n \in TooSmall : \A fake \in FakerRuns :
          (M1DataGenerator(n, fake) \/ M2DataGenerator(n, fake) \/ M3DataGenerator(n, fake)) =>
              /\ res'.op = "data_generator"
              /\ res'.error = "ZeroDivisionError"
              /\ res'.dropped = Len(m1_persons) + Len(m1_companies) + Len(m2_persons)
                                   + Len(m3_companies)
              /\ store' = <<<<>>, <<>>, <<>>, <<>>>>
              /\ ~Running'
      ]_vars

\* data_generator of Model1 has raised ZeroDivisionError after dropping a generated
\* data set, and left both collections empty
C14_Witness ==
    /\ model = "Model1"
    /\ res.op = "data_generator"
    /\ res.error = "ZeroDivisionError"
    /\ res.dropped >= 2 * CompanyRatio
    /\ m1_persons = <<>>
    /\ m1_companies = <<>>

\* the generated companies whose embedded name lacks the word
M2Rewritable ==
    {c \in 1..GeneratedCompanies : WordOffsets(m2_persons[c].company.name) = {}}

\* all m2_persons documents generated from one company embed the same company value
M2CopiesAgree ==
    \A c \in 1..GeneratedCompanies :
        \A i \in M2DocsOf(c) : m2_persons[i].company = m2_persons[c].company

\* C15: in Model2, in every state after data_generator and any queries, the
\* documents generated from one company embed identical company values; and a
\* query_q4 run rewrites the name in every document of each company whose name lacks
\* the word and in no other document, so that it modifies exactly as many documents
\* as those companies have employees.
C15_EmbeddedCopies ==
    /\ []((model = "Model2" /\ gen # NoGen) => M2CopiesAgree)
    /\ [][(model = "Model2" /\ gen # NoGen /\ res'.op = "query_q4") =>
              /\ res'.modified = Cardinality(UNION {M2DocsOf(c) : c \in M2Rewritable})
              /\ \A c \in 1..GeneratedCompanies : \A i \in M2DocsOf(c) :
                    m2_persons'[i].company.name =
                        IF c \in M2Rewritable
                        THEN m2_persons[i].company.name \o CompanySuffix
                        ELSE m2_persons[i].company.name
          ]_vars

\* query_q4 of Model2 has rewritten the name of one of the two companies, in as many
\* documents as it has employees
C15_Witness ==
    /\ model = "Model2"
    /\ gen # NoGen
    /\ res.op = "query_q4"
    /\ res.modified > 0
    /\ res.modified < Len(m2_persons)
    /\ \E c \in 1..GeneratedCompanies :
          /\ res.modified = Cardinality(M2DocsOf(c))
          /\ \A i \in M2DocsOf(c) : OnceAsSuffix(m2_persons[i].company.name)

====
